---- MODULE Spec2Model ----
(***************************************************************************)
(* Aayaan Hospital API (src/main.py, src/schemas.py): the accounts, the    *)
(* bearer tokens, the auth dependency of the protected routes, and the     *)
(* routes with side effects (signup, dispense, lab result upload), over a  *)
(* document store whose single-document operations are atomic.             *)
(*                                                                         *)
(* Strings that the code slices, parses or upper-cases (ObjectId hex       *)
(* strings, medical record numbers) are sequences of one-character         *)
(* strings.  Time is counted in ticks of 1/TicksPerSecond second.          *)
(***************************************************************************)
EXTENDS Integers, Sequences, FiniteSets, TLC

VARIABLES
    db,          \* TRUE when the store handle `db` is configured (not None)
    now,         \* the wall clock, in ticks
    oidCounter,  \* the ObjectId generator's process-wide counter
    user,        \* collection "user", in insertion (natural) order
    patient,     \* collection "patient"
    doctor,      \* collection "doctor"
    record,      \* collection "record"
    labtest,     \* collection "labtest"
    medicine,    \* collection "medicine"
    dispense,    \* collection "dispense"
    proc,        \* the requests in flight: slot -> position and locals
    resp,        \* the last response sent
    held,        \* the token the client holds, with the time login issued it
    stock0       \* history: medicine id -> the stock it was created with

vars == <<db, now, oidCounter, user, patient, doctor, record, labtest,
          medicine, dispense, proc, resp, held, stock0>>

collections == <<user, patient, doctor, record, labtest, medicine, dispense>>

-----------------------------------------------------------------------------
(* Bounds of the model *)

MaxProcs == 2
MaxUsers == 2

Procs == 1..MaxProcs

-----------------------------------------------------------------------------
(* Input domains *)

None == "None"
ValidEmails == {"amy@h.org", "bob@h.org"}
Emails == ValidEmails \cup {"not-an-email"}
Passwords == {"pw1", "pw2"}
SignupRoles == {"patient", "doctor", "nurse", "janitor"}
Salts == {"s1", "s2"}

-----------------------------------------------------------------------------
(* ObjectId: 12 bytes, rendered by str() as 24 lower-case hex digits; the  *)
(* last 3 bytes are the generator's counter.                               *)

HexDigits == <<"0","1","2","3","4","5","6","7","8","9","a","b","c","d","e","f">>
UpperDigits == <<"0","1","2","3","4","5","6","7","8","9","A","B","C","D","E","F">>

Range(s) == {s[i] : i \in DOMAIN s}

Pow16(k) == IF k = 0 THEN 1 ELSE IF k = 1 THEN 16 ELSE IF k = 2 THEN 256
            ELSE IF k = 3 THEN 4096 ELSE IF k = 4 THEN 65536 ELSE 1048576

Hex(n, width) == [i \in 1..width |-> HexDigits[((n \div Pow16(width - i)) % 16) + 1]]

HexChars == Range(HexDigits) \cup Range(UpperDigits)

ToUpper == [c \in HexChars |->
              IF \E i \in DOMAIN HexDigits : HexDigits[i] = c
              THEN UpperDigits[CHOOSE i \in DOMAIN HexDigits : HexDigits[i] = c]
              ELSE c]
ToLower == [c \in HexChars |->
              IF \E i \in DOMAIN UpperDigits : UpperDigits[i] = c
              THEN HexDigits[CHOOSE i \in DOMAIN UpperDigits : UpperDigits[i] = c]
              ELSE c]

\* str.upper() and the case folding of bytes.fromhex(), on hex digits
upper(s) == [i \in DOMAIN s |-> IF s[i] \in HexChars THEN ToUpper[s[i]] ELSE s[i]]
lower(s) == [i \in DOMAIN s |-> IF s[i] \in HexChars THEN ToLower[s[i]] ELSE s[i]]

OidLen == 24
OidPrefix == <<"6","5","4","a","9","f","0","c","2","b","7","e","1","d","3","8","5","a">>
CounterStart == 11259360   \* 0xabcde0

\* the n-th ObjectId the store generates
GenObjectId(n) == [hex |-> OidPrefix \o Hex(CounterStart + n, 6)]

str(oid) == oid.hex

\* ObjectId(s): raises InvalidId (ok = FALSE) unless s is 24 hex digits
ObjectId(s) ==
    IF Len(s) = OidLen /\ \A i \in DOMAIN s : s[i] \in HexChars
    THEN [ok |-> TRUE, oid |-> [hex |-> lower(s)]]
    ELSE [ok |-> FALSE, oid |-> [hex |-> <<>>]]

-----------------------------------------------------------------------------
(* Credential store: passlib bcrypt.  A hash carries its scheme, its salt  *)
(* and the digest of (salt, password); digests do not collide.             *)

get_password_hash(password, salt) ==
    [scheme |-> "bcrypt", salt |-> salt, digest |-> <<salt, password>>]

verify_password(plain_password, hashed_password) ==
    IF hashed_password.scheme = "bcrypt"
    THEN hashed_password.digest = <<hashed_password.salt, plain_password>>
    ELSE FALSE

-----------------------------------------------------------------------------
(* Document store *)

\* find_one({key: value}): the first match in natural order, or nothing
find_one(coll, key, value) ==
    IF \E i \in DOMAIN coll : coll[i][key] = value
    THEN <<coll[CHOOSE i \in DOMAIN coll :
                   coll[i][key] = value /\ \A j \in 1..(i - 1) : coll[j][key] # value]>>
    ELSE <<>>

-----------------------------------------------------------------------------
(* Requests in flight *)

Idle == [op |-> "idle"]
InFlight == {p \in Procs : proc[p] # Idle}
\* a request takes the lowest free slot
FreeSlot(p) == proc[p] = Idle /\ \A q \in 1..(p - 1) : proc[q] # Idle

NoToken == [fmt |-> "absent"]
NotHeld == [token |-> NoToken, at |-> 0]

\* a response: the HTTP status, the "id" or "access_token" of its body, and
\* the bearer token of the request it answers
NoResponse ==
    [route |-> "none", status |-> 0, id |-> <<>>, access_token |-> NoToken,
     authorization |-> NoToken]
Response(route, status) ==
    [route |-> route, status |-> status, id |-> <<>>, access_token |-> NoToken,
     authorization |-> NoToken]
Answer(route, status, token) ==
    [Response(route, status) EXCEPT !.authorization = token]

-----------------------------------------------------------------------------
(* POST /auth/signup *)

IsEmailStr(e) == e \in ValidEmails

\* a faulty variant: the record number is cut from the head of the id, as it is
mrn_from_head(uid) ==
    <<"M","R","N","-">> \o SubSeq(uid, 1, 6)

MedicalRecordNumber(uid) ==
    <<"M","R","N","-">> \o upper(SubSeq(uid, Len(uid) - 5, Len(uid)))

\* a faulty variant: the lookup filters on the wrong field
email_registered_wrong_field(email) ==
    find_one(user, "full_name", email) # <<>>

email_registered(email) ==
    find_one(user, "email", email) # <<>>

user_document(oid, payload, hashed, t) ==
    [_id |-> oid,
     role |-> payload.role,
     full_name |-> payload.full_name,
     email |-> payload.email,
     password_hash |-> hashed,
     is_active |-> TRUE,
     created_at |-> t,
     updated_at |-> t]

patient_stub(oid, uid) ==
    [_id |-> oid, user_id |-> uid, medical_record_number |-> MedicalRecordNumber(uid)]

doctor_stub(oid, uid) ==
    [_id |-> oid, user_id |-> uid, specialization |-> None]

\* validation of SignupRequest, the db check and the email lookup
signup_find(p, payload, salt) ==
    /\ FreeSlot(p)
    /\ Len(user) + Cardinality({q \in InFlight : proc[q].op = "signup"}) < MaxUsers
    /\ \/ /\ ~IsEmailStr(payload.email)
          /\ resp' = Response("signup", 422)
          /\ proc' = proc
       \/ /\ IsEmailStr(payload.email)
          /\ ~db
          /\ resp' = Response("signup", 500)
          /\ proc' = proc
       \/ /\ IsEmailStr(payload.email)
          /\ db
          /\ email_registered(payload.email)
          /\ resp' = Response("signup", 400)
          /\ proc' = proc
       \/ /\ IsEmailStr(payload.email)
          /\ db
          /\ ~email_registered(payload.email)
          /\ proc' = [proc EXCEPT ![p] =
                 [op |-> "signup", pc |-> "insert_user", payload |-> payload,
                  hashed |-> get_password_hash(payload.password, salt), uid |-> <<>>]]
          /\ resp' = resp
    /\ UNCHANGED <<db, now, oidCounter, collections, held, stock0>>

signup_insert_user(p) ==
    /\ proc[p].op = "signup"
    /\ proc[p].pc = "insert_user"
    /\ LET oid == GenObjectId(oidCounter)
           user_doc == user_document(oid, proc[p].payload, proc[p].hashed, now)
       IN /\ user' = Append(user, user_doc)
          /\ oidCounter' = oidCounter + 1
          /\ proc' = [proc EXCEPT ![p].pc = "insert_profile", ![p].uid = str(oid)]
    /\ UNCHANGED <<db, now, patient, doctor, record, labtest, medicine, dispense,
                   resp, held, stock0>>

signup_insert_profile(p) ==
    /\ proc[p].op = "signup"
    /\ proc[p].pc = "insert_profile"
    /\ LET uid == proc[p].uid
           oid == GenObjectId(oidCounter)
       IN \/ /\ proc[p].payload.role = "patient"
             /\ patient' = Append(patient, patient_stub(oid, uid))
             /\ oidCounter' = oidCounter + 1
             /\ doctor' = doctor
          \/ /\ proc[p].payload.role = "doctor"
             /\ doctor' = Append(doctor, doctor_stub(oid, uid))
             /\ oidCounter' = oidCounter + 1
             /\ patient' = patient
          \/ /\ proc[p].payload.role \notin {"patient", "doctor"}
             /\ UNCHANGED <<patient, doctor, oidCounter>>
    /\ resp' = [Response("signup", 200) EXCEPT !.id = proc[p].uid]
    /\ proc' = [proc EXCEPT ![p] = Idle]
    /\ UNCHANGED <<db, now, user, record, labtest, medicine, dispense, held, stock0>>

SignupPayloads ==
    [role : SignupRoles, full_name : {"Ann Lee"}, email : Emails, password : Passwords]

signup ==
    \E p \in Procs :
        \/ \E payload \in SignupPayloads, salt \in Salts : signup_find(p, payload, salt)
        \/ signup_insert_user(p)
        \/ signup_insert_profile(p)

-----------------------------------------------------------------------------
(* Token service: PyJWT, HS256.  jwt.encode() writes a datetime "exp" as   *)
(* whole seconds since the epoch; jwt.decode() raises PyJWTError for a     *)
(* string that is no token, a signature made with another key, and an      *)
(* "exp" that is not after the current time.                               *)

TicksPerSecond == 2
ACCESS_TOKEN_EXPIRE_MINUTES == 60 * 8
SECRET_KEY == "change_this_secret"

timedelta_minutes(m) == m * 60 * TicksPerSecond

\* timegm(exp.utctimetuple()): the datetime cut to whole seconds
timegm(t) == t \div TicksPerSecond

jwt_encode(payload, key) ==
    [fmt |-> "jwt",
     claims |-> [payload EXCEPT !.exp = timegm(payload.exp)],
     sig |-> key]

\* a faulty variant: the token never expires within the default lifetime
create_access_token_doubled(data) ==
    jwt_encode(data @@ [exp |-> now + 2 * timedelta_minutes(ACCESS_TOKEN_EXPIRE_MINUTES)],
               SECRET_KEY)

create_access_token(data) ==
    LET expire == now + timedelta_minutes(ACCESS_TOKEN_EXPIRE_MINUTES)
    IN jwt_encode(data @@ [exp |-> expire], SECRET_KEY)

\* jwt.decode(token, key): ok = FALSE stands for a raised PyJWTError
jwt_decode(token, key) ==
    IF token.fmt # "jwt" THEN [ok |-> FALSE, payload |-> <<>>]
    ELSE IF token.sig # key THEN [ok |-> FALSE, payload |-> <<>>]
    ELSE IF "exp" \in DOMAIN token.claims
            /\ token.claims.exp * TicksPerSecond <= now
         THEN [ok |-> FALSE, payload |-> <<>>]
    ELSE [ok |-> TRUE, payload |-> token.claims]

-----------------------------------------------------------------------------
(* POST /auth/login *)

login_token(u) ==
    create_access_token([sub |-> str(u._id), role |-> u.role])

login(username, password) ==
    /\ \/ /\ ~db
          /\ resp' = Response("login", 500)
          /\ held' = held
       \/ /\ db
          /\ LET found == find_one(user, "email", username)
             IN \/ /\ \/ found = <<>>
                      \/ /\ found # <<>>
                         /\ ~verify_password(password, found[1].password_hash)
                   /\ resp' = Response("login", 400)
                   /\ held' = held
                \/ /\ found # <<>>
                   /\ verify_password(password, found[1].password_hash)
                   /\ resp' = [Response("login", 200) EXCEPT
                                  !.access_token = login_token(found[1])]
                   /\ held' = [token |-> login_token(found[1]), at |-> now]
    /\ UNCHANGED <<db, now, oidCounter, collections, proc, stock0>>

-----------------------------------------------------------------------------
(* The auth dependency of every protected route *)

HTTP(status) == [status |-> status, user |-> <<>>]

\* a faulty variant: the token alone is trusted, the User is not looked up
get_current_user_no_lookup(token) ==
    IF token = NoToken THEN HTTP(401)
    ELSE LET decoded == jwt_decode(token, SECRET_KEY)
         IN IF ~decoded.ok THEN HTTP(401)
            ELSE IF "sub" \notin DOMAIN decoded.payload THEN HTTP(401)
            ELSE IF ~db THEN HTTP(500)
            ELSE [status |-> 200, user |-> <<[_id |-> decoded.payload.sub]>>]

\* get_current_user: 401 without a bearer token (oauth2_scheme), 401 for a
\* token jwt.decode refuses or that has no "sub", 500 without a store, 401
\* when no User has the id; else the User, its _id as a string
get_current_user(token) ==
    IF token = NoToken THEN HTTP(401)
    ELSE LET decoded == jwt_decode(token, SECRET_KEY)
         IN IF ~decoded.ok THEN HTTP(401)
            ELSE IF "sub" \notin DOMAIN decoded.payload THEN HTTP(401)
            ELSE IF ~db THEN HTTP(500)
            ELSE LET user_id == ObjectId(decoded.payload.sub)
                     found == IF user_id.ok
                              THEN find_one(user, "_id", user_id.oid)
                              ELSE <<>>
                 IN IF found = <<>> THEN HTTP(401)
                    ELSE [status |-> 200,
                          user |-> <<[found[1] EXCEPT !._id = str(found[1]._id)]>>]

-----------------------------------------------------------------------------
(* POST /records/{patient_id}.  The handler's own `db is None` check, like  *)
(* that of every protected route, cannot fail: the dependency has answered *)
(* 500 before.                                                             *)

MaxRecords == 1

add_record(token, patient_id, notes) ==
    /\ LET current == get_current_user(token)
       IN \/ /\ current.status # 200
             /\ resp' = Answer("add_record", current.status, token)
             /\ UNCHANGED <<record, oidCounter>>
          \/ /\ current.status = 200
             /\ db
             /\ Len(record) < MaxRecords
             /\ LET rid == GenObjectId(oidCounter)
                IN /\ record' = Append(record,
                          [_id |-> rid, patient_id |-> patient_id, notes |-> notes,
                           created_at |-> now])
                   /\ resp' = [Answer("add_record", 200, token) EXCEPT !.id = str(rid)]
             /\ oidCounter' = oidCounter + 1
    /\ UNCHANGED <<db, now, user, patient, doctor, labtest, medicine, dispense,
                   proc, held, stock0>>

-----------------------------------------------------------------------------
(* The environment of a session: the clock, the tokens a client can        *)
(* present, and a User document leaving the directory outside the API.     *)

MaxTicks == 4

LongSleep == timedelta_minutes(ACCESS_TOKEN_EXPIRE_MINUTES) - (MaxTicks \div 2)

clock_advance(d) ==
    /\ \/ d = 1 /\ (now % LongSleep) < MaxTicks
       \/ d = LongSleep /\ now < LongSleep
    /\ now' = now + d
    /\ UNCHANGED <<db, oidCounter, collections, proc, resp, held, stock0>>

remove_user(i) ==
    /\ i \in DOMAIN user
    /\ user' = SubSeq(user, 1, i - 1) \o SubSeq(user, i + 1, Len(user))
    /\ UNCHANGED <<db, now, oidCounter, patient, doctor, record, labtest, medicine,
                   dispense, proc, resp, held, stock0>>

FarFuture == 4 * ACCESS_TOKEN_EXPIRE_MINUTES * 60
UnknownId == OidPrefix \o <<"f","f","f","f","f","f">>

\* what a client can put in the Authorization header
ForgedTokens ==
    { [fmt |-> "garbage"],
      [fmt |-> "jwt", claims |-> [role |-> "admin", exp |-> FarFuture], sig |-> SECRET_KEY],
      [fmt |-> "jwt", claims |-> [sub |-> UnknownId, role |-> "admin", exp |-> FarFuture],
       sig |-> SECRET_KEY],
      [fmt |-> "jwt", claims |-> [sub |-> <<"4","2">>, role |-> "admin", exp |-> FarFuture],
       sig |-> SECRET_KEY] }

BearerTokens ==
    {NoToken} \cup ForgedTokens \cup
    (IF held.token = NoToken THEN {}
     ELSE {held.token, [held.token EXCEPT !.sig = "another key"]})

\* the accounts two completed signups leave in the store
Registered ==
    <<[role |-> "doctor", full_name |-> "Ann Lee", email |-> "amy@h.org", password |-> "pw1"],
      [role |-> "patient", full_name |-> "Ann Lee", email |-> "bob@h.org", password |-> "pw2"]>>

RegisteredUser(k) ==
    user_document(GenObjectId(2 * (k - 1)), Registered[k],
                  get_password_hash(Registered[k].password, "s1"), 0)

InitSession ==
    /\ db \in BOOLEAN
    /\ now = 0
    /\ \E n \in 0..Len(Registered) :
          /\ user = IF db THEN [k \in 1..n |-> RegisteredUser(k)] ELSE <<>>
          /\ oidCounter = IF db THEN 2 * n ELSE 0
          /\ doctor = IF db /\ n >= 1
                      THEN <<doctor_stub(GenObjectId(1), str(GenObjectId(0)))>> ELSE <<>>
          /\ patient = IF db /\ n >= 2
                       THEN <<patient_stub(GenObjectId(3), str(GenObjectId(2)))>> ELSE <<>>
    /\ record = <<>> /\ labtest = <<>> /\ medicine = <<>> /\ dispense = <<>>
    /\ proc = [p \in Procs |-> Idle]
    /\ resp = NoResponse
    /\ held = NotHeld
    /\ stock0 = <<>>

NextSession ==
    \/ \E username \in Emails, password \in Passwords : login(username, password)
    \/ \E token \in BearerTokens : add_record(token, "p1", "note")
    \/ \E d \in {1, LongSleep} : clock_advance(d)
    \/ \E i \in DOMAIN user : remove_user(i)

SpecSession == InitSession /\ [][NextSession]_vars

-----------------------------------------------------------------------------

InitAccounts ==
    /\ db \in BOOLEAN
    /\ now = 0
    /\ oidCounter = 0
    /\ user = <<>> /\ patient = <<>> /\ doctor = <<>> /\ record = <<>>
    /\ labtest = <<>> /\ medicine = <<>> /\ dispense = <<>>
    /\ proc = [p \in Procs |-> Idle]
    /\ resp = NoResponse
    /\ held = NotHeld
    /\ stock0 = <<>>

NextAccounts ==
    \/ signup
    \/ \E username \in Emails, password \in Passwords : login(username, password)

SpecAccounts == InitAccounts /\ [][NextAccounts]_vars

-----------------------------------------------------------------------------
(* The store the pharmacy and the laboratory work on: one registered       *)
(* doctor, logged in.                                                      *)

InitWard ==
    /\ db \in BOOLEAN
    /\ now = 0
    /\ user = IF db THEN <<RegisteredUser(1)>> ELSE <<>>
    /\ doctor = IF db THEN <<doctor_stub(GenObjectId(1), str(GenObjectId(0)))>> ELSE <<>>
    /\ held = IF db THEN [token |-> login_token(RegisteredUser(1)), at |-> 0] ELSE NotHeld
    /\ patient = <<>> /\ record = <<>>
    /\ proc = [p \in Procs |-> Idle]
    /\ resp = NoResponse

WardTokens == {NoToken, held.token}

\* create_document(collection, data): the document of the validated model,
\* inserted under a generated id
create_document(data, oid) == data @@ [_id |-> oid]

-----------------------------------------------------------------------------
(* POST /pharmacy/dispense, on the medicines POST /pharmacy/medicines has  *)
(* stored                                                                  *)

MaxMedicines == 2
MaxDispenses == 2
Stocks == {2, 10}

Medicine(stock) == [name |-> "amoxicillin", stock |-> stock, price |-> 5]

InitPharmacy ==
    /\ InitWard
    /\ labtest = <<>> /\ dispense = <<>>
    /\ \E stocks \in [1..MaxMedicines -> Stocks] :
          /\ stock0 = IF db THEN stocks ELSE <<>>
          /\ medicine = IF db
                        THEN [k \in 1..MaxMedicines |->
                                create_document(Medicine(stocks[k]), GenObjectId(1 + k))]
                        ELSE <<>>
    /\ oidCounter = IF db THEN 2 + MaxMedicines ELSE 0

\* Dispense(**body): "paid" defaults to False
DispenseSchema(body) ==
    IF "paid" \in DOMAIN body THEN body ELSE body @@ [paid |-> FALSE]

\* a faulty variant: the sign of the increment is lost
stock_delta_unsigned(item) ==
    IF "quantity" \in DOMAIN item THEN item.quantity ELSE 0

\* -int(item.get("quantity", 0))
stock_delta(item) ==
    -(IF "quantity" \in DOMAIN item THEN item.quantity ELSE 0)

\* a faulty variant: {"$set": {"stock": amount}}
update_one_set_stock(coll, oid, amount) ==
    [k \in DOMAIN coll |->
        IF coll[k]._id = oid THEN [coll[k] EXCEPT !.stock = amount] ELSE coll[k]]

\* update_one({"_id": oid}, {"$inc": {"stock": amount}}): one atomic
\* read-modify-write of the matching document, if there is one
update_one_inc_stock(coll, oid, amount) ==
    [k \in DOMAIN coll |->
        IF coll[k]._id = oid THEN [coll[k] EXCEPT !.stock = @ + amount] ELSE coll[k]]

\* the auth dependency, the db check and create_document("dispense", d)
dispense_insert(p, token, body) ==
    /\ FreeSlot(p)
    /\ LET current == get_current_user(token)
           d == DispenseSchema(body)
           did == GenObjectId(oidCounter)
       IN \/ /\ current.status # 200
             /\ resp' = Answer("dispense", current.status, token)
             /\ UNCHANGED <<dispense, oidCounter, proc>>
          \/ /\ current.status = 200
             /\ db
             /\ Len(dispense) < MaxDispenses
             /\ dispense' = Append(dispense, create_document(d, did))
             /\ oidCounter' = oidCounter + 1
             /\ \/ /\ d.items = <<>>
                   /\ resp' = [Response("dispense", 200) EXCEPT !.id = str(did)]
                   /\ proc' = proc
                \/ /\ d.items # <<>>
                   /\ proc' = [proc EXCEPT ![p] =
                          [op |-> "dispense", pc |-> "items", d |-> d, i |-> 1,
                           did |-> str(did)]]
                   /\ resp' = resp
    /\ UNCHANGED <<db, now, user, patient, doctor, record, labtest, medicine,
                   held, stock0>>

\* one turn of the loop over d.items; the handler returns after the last
dispense_item(p) ==
    /\ proc[p].op = "dispense"
    /\ proc[p].pc = "items"
    /\ LET item == proc[p].d.items[proc[p].i]
           oid == ObjectId(item.medicine_id)
       IN \/ /\ oid.ok
             /\ medicine' = update_one_inc_stock(medicine, oid.oid, stock_delta(item))
          \/ /\ ~oid.ok
             /\ medicine' = medicine
    /\ \/ /\ proc[p].i < Len(proc[p].d.items)
          /\ proc' = [proc EXCEPT ![p].i = @ + 1]
          /\ resp' = resp
       \/ /\ proc[p].i = Len(proc[p].d.items)
          /\ proc' = [proc EXCEPT ![p] = Idle]
          /\ resp' = [Response("dispense", 200) EXCEPT !.id = proc[p].did]
    /\ UNCHANGED <<db, now, oidCounter, user, patient, doctor, record, labtest,
                   dispense, held, stock0>>

Malformed == <<"4","2">>

LineItem(medicine_id, quantity) ==
    [medicine_id |-> medicine_id, quantity |-> quantity, price |-> 5]

DispenseBody(items) ==
    [patient_id |-> "p1", prescription_id |-> "rx1", items |-> items, total |-> 5]

\* the bodies a client sends: line items on the first and the last medicine,
\* an id in upper-case hex digits, an id of no document, a string that is no
\* id, alone and before or after a line item that applies
DispenseBodies ==
    IF medicine = <<>> THEN {DispenseBody(<<LineItem(UnknownId, 2)>>)}
    ELSE LET first == str(medicine[1]._id)
             last == str(medicine[Len(medicine)]._id)
             A == LineItem(first, 3)
             B == LineItem(last, 1)
             X == LineItem(Malformed, 2)
             U == LineItem(UnknownId, 2)
         IN {DispenseBody(items) :
               items \in {<<>>, <<A>>, <<B>>, <<A, A>>, <<A, B>>, <<B, A>>,
                          <<X>>, <<X, A>>, <<B, X>>, <<U, B>>,
                          <<LineItem(upper(first), 1)>>}}
            \cup {DispenseBody(<<A>>) @@ [paid |-> TRUE]}

NextPharmacy ==
    \/ \E p \in Procs, body \in DispenseBodies : dispense_insert(p, held.token, body)
    \/ \E p \in Procs : dispense_insert(p, NoToken, DispenseBody(<<>>))
    \/ \E p \in Procs : dispense_item(p)

SpecPharmacy == InitPharmacy /\ [][NextPharmacy]_vars

-----------------------------------------------------------------------------
(* POST /lab/tests, POST /lab/results/upload *)

MaxLabTests == 2

InitLab ==
    /\ InitWard
    /\ labtest = <<>> /\ medicine = <<>> /\ dispense = <<>> /\ stock0 = <<>>
    /\ oidCounter = IF db THEN 2 ELSE 0

\* LabTest(**body): the defaults of the optional fields
LabTestSchema(body) ==
    body @@ [status |-> "ordered", result_summary |-> None, result_pdf_url |-> None]

order_test(token, t) ==
    /\ LET current == get_current_user(token)
       IN \/ /\ current.status # 200
             /\ resp' = Answer("order_test", current.status, token)
             /\ UNCHANGED <<labtest, oidCounter>>
          \/ /\ current.status = 200
             /\ db
             /\ Len(labtest) < MaxLabTests
             /\ LET tid == GenObjectId(oidCounter)
                IN /\ labtest' = Append(labtest, create_document(LabTestSchema(t), tid))
                   /\ resp' = [Answer("order_test", 200, token) EXCEPT !.id = str(tid)]
             /\ oidCounter' = oidCounter + 1
    /\ UNCHANGED <<db, now, user, patient, doctor, record, medicine, dispense,
                   proc, held, stock0>>

\* a faulty variant: update_many with a filter that matches every test
update_many_set_result(coll, oid, url) ==
    [k \in DOMAIN coll |->
        [coll[k] EXCEPT !.status = "completed", !.result_pdf_url = url]]

\* update_one({"_id": oid}, {"$set": {"status": "completed",
\*                                    "result_pdf_url": url}})
update_one_set_result(coll, oid, url) ==
    [k \in DOMAIN coll |->
        IF coll[k]._id = oid
        THEN [coll[k] EXCEPT !.status = "completed", !.result_pdf_url = url]
        ELSE coll[k]]

\* f"/files/{file.filename}"; a missing filename is formatted as "None"
result_url(filename) == "/files/" \o filename

upload_result(token, test_id, filename) ==
    /\ LET current == get_current_user(token)
           oid == ObjectId(test_id)
       IN \/ /\ current.status # 200
             /\ resp' = Answer("upload_result", current.status, token)
             /\ labtest' = labtest
          \/ /\ current.status = 200
             /\ db
             /\ ~oid.ok
             /\ resp' = Answer("upload_result", 500, token)
             /\ labtest' = labtest
          \/ /\ current.status = 200
             /\ db
             /\ oid.ok
             /\ labtest' = update_one_set_result(labtest, oid.oid, result_url(filename))
             /\ resp' = Answer("upload_result", 200, token)
    /\ UNCHANGED <<db, now, oidCounter, user, patient, doctor, record, medicine,
                   dispense, proc, held, stock0>>

LabTestBody(test_type) ==
    [patient_id |-> "p1", ordered_by |-> "d1", test_type |-> test_type]

LabTestBodies ==
    {LabTestBody("cbc"), LabTestBody("xray"),
     [status |-> "in_progress"] @@ LabTestBody("cbc"),
     [status |-> "cancelled", result_summary |-> "sample lost"] @@ LabTestBody("cbc")}

TestIds ==
    {UnknownId, Malformed}
    \cup {str(labtest[k]._id) : k \in DOMAIN labtest}
    \cup (IF labtest = <<>> THEN {} ELSE {upper(str(labtest[1]._id))})

Filenames == {"scan.pdf", None}

NextLab ==
    \/ \E token \in WardTokens, t \in LabTestBodies : order_test(token, t)
    \/ \E token \in WardTokens, test_id \in TestIds, filename \in Filenames :
          upload_result(token, test_id, filename)

SpecLab == InitLab /\ [][NextLab]_vars

-----------------------------------------------------------------------------
(* Claims about the pharmacy and the laboratory *)

\* the line item's medicine_id is the id of document m
Refers(id, m) == Len(id) = OidLen /\ lower(id) = str(m._id)

\* C6: an authenticated dispense request stores exactly one Dispense
\* document, with the items of the body and paid = FALSE unless the body
\* supplies it, and no stock changes on that step; then every turn of the
\* loop takes the next line item, lowers by its quantity the stock of the
\* Medicine it refers to, changes no other Medicine and no Dispense, and
\* goes on to the next item (or answers 200 after the last) whether or not
\* the item referred to a Medicine.
C6_DispenseEffect ==
    [][ /\ \A p \in Procs, body \in DispenseBodies :
             (dispense_insert(p, held.token, body) /\ db) =>
                 /\ Len(dispense') = Len(dispense) + 1
                 /\ \A j \in DOMAIN dispense : dispense'[j] = dispense[j]
                 /\ LET doc == dispense'[Len(dispense')]
                    IN /\ doc.items = body.items
                       /\ doc.patient_id = body.patient_id
                       /\ doc.prescription_id = body.prescription_id
                       /\ doc.total = body.total
                       /\ doc.paid = (IF "paid" \in DOMAIN body THEN body.paid ELSE FALSE)
                       /\ IF body.items = <<>>
                          THEN resp'.status = 200 /\ resp'.id = str(doc._id)
                          ELSE proc'[p].op = "dispense" /\ proc'[p].i = 1
                 /\ medicine' = medicine
        /\ \A p \in Procs :
             (proc[p].op = "dispense" /\ proc'[p] # proc[p]) =>
                 LET item == proc[p].d.items[proc[p].i]
                 IN /\ DOMAIN medicine' = DOMAIN medicine
                    /\ \A k \in DOMAIN medicine :
                          medicine'[k] =
                            [medicine[k] EXCEPT !.stock =
                               @ - (IF Refers(item.medicine_id, medicine[k])
                                    THEN item.quantity ELSE 0)]
                    /\ dispense' = dispense
                    /\ IF proc[p].i < Len(proc[p].d.items)
                       THEN proc'[p] = [proc[p] EXCEPT !.i = @ + 1]
                       ELSE /\ proc'[p] = Idle
                            /\ resp'.status = 200
                            /\ resp'.id = proc[p].did
      ]_vars

\* a dispense of a malformed id and then 3 of a medicine stocked 10 has
\* been answered: the Dispense is stored unpaid and the stock is 7
C6_Witness ==
    /\ resp.route = "dispense" /\ resp.status = 200
    /\ InFlight = {}
    /\ Len(dispense) = 1
    /\ str(dispense[1]._id) = resp.id
    /\ dispense[1].paid = FALSE
    /\ Len(dispense[1].items) = 2
    /\ dispense[1].items[1].medicine_id = Malformed
    /\ dispense[1].items[2].medicine_id = str(medicine[1]._id)
    /\ dispense[1].items[2].quantity = 3
    /\ stock0[1] = 10 /\ medicine[1].stock = 7
    /\ medicine[2].stock = stock0[2]

RECURSIVE SumTo(_, _)
SumTo(f, n) == IF n = 0 THEN 0 ELSE f[n] + SumTo(f, n - 1)

\* the line items of Dispense j whose turn of the loop is over
Done(j) ==
    LET running == {p \in InFlight : proc[p].did = str(dispense[j]._id)}
    IN IF running = {} THEN Len(dispense[j].items)
       ELSE proc[CHOOSE p \in running : TRUE].i - 1

\* the quantity that the finished turns of all Dispenses took from m
Taken(m) ==
    SumTo([j \in DOMAIN dispense |->
             SumTo([n \in 1..Done(j) |->
                      IF Refers(dispense[j].items[n].medicine_id, m)
                      THEN dispense[j].items[n].quantity ELSE 0],
                   Done(j))],
          Len(dispense))

\* C10: in every state the stock of every Medicine is its initial stock
\* minus the quantities of the line items that refer to it and whose turn
\* is over; with no dispense in flight these are all the line items.
C10_NoLostUpdate ==
    \A k \in DOMAIN medicine : medicine[k].stock = stock0[k] - Taken(medicine[k])

\* two dispenses in flight, each with one of its two decrements of the same
\* medicine applied, and the stock already negative
C10_Witness ==
    /\ InFlight = Procs
    /\ Len(dispense) = 2
    /\ \A p \in Procs :
          /\ proc[p].i = 2
          /\ Len(proc[p].d.items) = 2
          /\ Refers(proc[p].d.items[1].medicine_id, medicine[1])
    /\ medicine[1].stock = stock0[1] - 6
    /\ medicine[1].stock < 0

\* C7: an upload for the id of a LabTest with status "ordered" changes that
\* document alone, in one step: its status becomes "completed", its
\* result_pdf_url a value other than None, its other fields stay; no other
\* LabTest and no other collection changes.
C7_UploadFrame ==
    [][ \A test_id \in TestIds, filename \in Filenames :
          (upload_result(held.token, test_id, filename) /\ db) =>
              \A k \in DOMAIN labtest :
                  (Refers(test_id, labtest[k]) /\ labtest[k].status = "ordered") =>
                      /\ labtest'[k].status = "completed"
                      /\ labtest'[k].result_pdf_url # None
                      /\ labtest' = [labtest EXCEPT ![k] =
                             [@ EXCEPT !.status = "completed",
                                       !.result_pdf_url = labtest'[k].result_pdf_url]]
                      /\ UNCHANGED <<user, patient, doctor, record, medicine, dispense>>
                      /\ resp'.status = 200
      ]_vars

\* one of two ordered tests has its result, the other is untouched
C7_Witness ==
    /\ resp.route = "upload_result" /\ resp.status = 200
    /\ Len(labtest) = 2
    /\ labtest[1].status = "ordered" /\ labtest[1].result_pdf_url = None
    /\ labtest[2].status = "completed" /\ labtest[2].result_pdf_url = "/files/scan.pdf"
    /\ labtest[2].test_type = "xray" /\ labtest[2].result_summary = None

-----------------------------------------------------------------------------
(* Claims about the session *)

Resolves(sub) ==
    \E i \in DOMAIN user : str(user[i]._id) = lower(sub)

\* what the claim lists: no token, a malformed, wrongly signed or expired
\* token, a token without "sub", a "sub" that no User of the directory has
NoLiveUser(token) ==
    \/ token = NoToken
    \/ token.fmt # "jwt"
    \/ token.sig # SECRET_KEY
    \/ token.claims.exp * TicksPerSecond < now
    \/ "sub" \notin DOMAIN token.claims
    \/ db /\ ~Resolves(token.claims.sub)

\* C4: a protected request whose token stands for no live User is answered
\* 401 and changes no collection of the store.
C4_NoLiveUserRejected ==
    [][ \A token \in BearerTokens :
          (add_record(token, "p1", "note") /\ NoLiveUser(token)) =>
              /\ resp'.status = 401
              /\ UNCHANGED collections
      ]_vars

\* the token of a User who has left the directory since login was refused
C4_Witness ==
    /\ resp.route = "add_record" /\ resp.status = 401
    /\ resp.authorization # NoToken
    /\ resp.authorization = held.token
    /\ held.token.claims.exp * TicksPerSecond > now
    /\ ~Resolves(held.token.claims.sub)
    /\ record = <<>>

Lifetime == timedelta_minutes(ACCESS_TOKEN_EXPIRE_MINUTES)

Accepted(token) == get_current_user(token).status = 200
Rejected(token) == get_current_user(token).status = 401

HolderPresent ==
    /\ db
    /\ held.token # NoToken
    /\ Resolves(held.token.claims.sub)

\* C5 as stated: accepted at every time strictly before t + T, rejected at
\* every time strictly after t + T.
C5_LifetimeExact ==
    HolderPresent =>
        /\ now < held.at + Lifetime => Accepted(held.token)
        /\ now > held.at + Lifetime => Rejected(held.token)

WholeSeconds(t) == (t \div TicksPerSecond) * TicksPerSecond

\* C5 as amended: with t cut to whole seconds (the token's "exp" is a whole
\* number of seconds), the token is accepted at every time strictly before
\* floor(t) + T and rejected at every time from floor(t) + T on; and once it
\* is rejected as expired no step makes it accepted again.
C5_LifetimeWholeSeconds ==
    /\ [](HolderPresent =>
            /\ now < WholeSeconds(held.at) + Lifetime => Accepted(held.token)
            /\ now >= WholeSeconds(held.at) + Lifetime => Rejected(held.token))
    /\ [][ (held.token # NoToken /\ held' = held
            /\ now >= WholeSeconds(held.at) + Lifetime)
           => ~Accepted(held.token)' ]_vars

\* a token issued half a second into a second is used less than a second
\* before its lifetime ends and the request is served
C5_Witness ==
    /\ held.token # NoToken
    /\ held.at % TicksPerSecond # 0
    /\ now = WholeSeconds(held.at) + Lifetime - 1
    /\ resp.route = "add_record" /\ resp.status = 200
    /\ resp.authorization = held.token
    /\ Len(record) = 1 /\ record[1].created_at = now

-----------------------------------------------------------------------------
(* Claims about the accounts *)

Roles == {"doctor", "nurse", "patient", "lab", "pharmacy", "admin"}

UserWithId(coll, uid) == {i \in DOMAIN coll : coll[i]._id.hex = uid}

\* C1: a signup whose e-mail no User holds is not rejected and ends with 200
\* and its User stored; a signup whose e-mail a User already holds (any
\* signup that starts after one with the same e-mail has completed: Users
\* are never removed) ends with 400 and changes no collection.
C1_SignupOncePerEmail ==
    [][ /\ \A p \in Procs, payload \in SignupPayloads, salt \in Salts :
             (signup_find(p, payload, salt) /\ db /\ payload.email \in ValidEmails) =>
                 IF \E i \in DOMAIN user : user[i].email = payload.email
                 THEN /\ resp' = Response("signup", 400)
                      /\ proc' = proc
                      /\ UNCHANGED collections
                 ELSE /\ proc'[p].op = "signup"
                      /\ proc'[p].payload = payload
                      /\ resp' = resp
        /\ \A p \in Procs :
             (proc[p].op = "signup" /\ proc'[p] # proc[p]) =>
                 \/ proc'[p].op = "signup"
                 \/ /\ proc'[p] = Idle
                    /\ resp'.route = "signup" /\ resp'.status = 200
                    /\ \E i \in UserWithId(user', resp'.id) :
                           user'[i].email = proc[p].payload.email
        /\ \A i \in DOMAIN user : i \in DOMAIN user' /\ user'[i] = user[i]
      ]_vars

\* a second signup with a registered e-mail has just been refused
C1_Witness ==
    /\ resp.route = "signup" /\ resp.status = 400
    /\ Len(user) = 1
    /\ InFlight = {}

\* C2: no two User documents have the same e-mail
C2_EmailUnique ==
    \A i, j \in DOMAIN user : user[i].email = user[j].email => i = j

\* the password Hash was made from
MadeFrom(hashed, password) ==
    \E salt \in Salts : hashed = get_password_hash(password, salt)

\* C3: with the store configured, login with the e-mail and password of any
\* User answers 200 with a token whose sub is that User's id and whose role
\* is that User's role; any other login answers 400 and issues no token.
C3_LoginContract ==
    [][ \A e \in Emails, pw \in Passwords :
          (login(e, pw) /\ db) =>
              LET owners == {i \in DOMAIN user :
                               user[i].email = e /\ MadeFrom(user[i].password_hash, pw)}
              IN IF owners # {}
                 THEN \A i \in owners :
                        /\ resp'.status = 200
                        /\ resp'.access_token.fmt = "jwt"
                        /\ resp'.access_token.claims.sub = str(user[i]._id)
                        /\ resp'.access_token.claims.role = user[i].role
                 ELSE /\ resp'.status = 400
                      /\ resp'.access_token = NoToken
      ]_vars

Last6Upper(s) == [k \in 1..6 |-> upper(<<s[Len(s) - 6 + k]>>)[1]]

\* C8: when a signup completes with id U, the User U is stored with the
\* role of the request; for role "patient" a Patient with user_id = U and
\* medical_record_number = "MRN-" + the last 6 characters of U upper-cased
\* is stored; for any other role no step of the signup adds a Patient.
C8_PatientStub ==
    [][ \A p \in Procs :
          (proc[p].op = "signup" /\ proc'[p] # proc[p]) =>
              IF proc'[p] = Idle
              THEN LET U == resp'.id
                       role == proc[p].payload.role
                   IN /\ resp'.status = 200
                      /\ Len(U) = OidLen
                      /\ \E i \in UserWithId(user', U) : user'[i].role = role
                      /\ IF role = "patient"
                         THEN /\ Len(patient') = Len(patient) + 1
                              /\ \E j \in DOMAIN patient' :
                                    /\ patient'[j].user_id = U
                                    /\ patient'[j].medical_record_number =
                                          <<"M","R","N","-">> \o Last6Upper(U)
                         ELSE patient' = patient
              ELSE patient' = patient
      ]_vars

\* a patient signup has completed and its Patient stub is stored
C8_Witness ==
    /\ resp.route = "signup" /\ resp.status = 200
    /\ \E i \in UserWithId(user, resp.id) : user[i].role = "patient"
    /\ \E j \in DOMAIN patient :
          /\ patient[j].user_id = resp.id
          /\ patient[j].medical_record_number =
                <<"M","R","N","-","A","B","C","D","E","0">>

\* C9: every User document has one of the six roles
C9_RoleValid ==
    \A i \in DOMAIN user : user[i].role \in Roles

====
